---- MODULE Spec2Model ----
(***************************************************************************)
(* One SOCKS5 connection of rusty-socks: the per-connection driver loop of *)
(* main.rs, the state machine and relay of states.rs, the wire codec of    *)
(* messages.rs and the auth policy of context.rs.  Bytes are integers      *)
(* 0..255, strings are byte sequences.                                     *)
(***************************************************************************)
EXTENDS Integers, Sequences, FiniteSets, TLC

\* ---------------------------------------------------------------- bounds
MaxSends == 4          \* chunks the client sends on one connection
MaxBacklog == 3        \* the client sends only while at most this many bytes are unread
MaxPeerSends == 2      \* chunks the destination sends on the outbound stream
MaxMethods == 3        \* length of the method lists select_authentication is compared on
MaxInput == 24         \* length of the inputs ClientRequest::new is called on

\* ------------------------------------------------------- program constants
BufferLen == 4096      \* Proxier::run buffer

\* ---------------------------------------------------------------- helpers
Range(s) == {s[i] : i \in 1..Len(s)}

Min(a, b) == IF a <= b THEN a ELSE b

Take(s, n) == SubSeq(s, 1, Min(n, Len(s)))

Drop(s, n) == SubSeq(s, Min(n, Len(s)) + 1, Len(s))

IsPrefix(s, t) == Len(s) <= Len(t) /\ SubSeq(t, 1, Len(s)) = s

\* ------------------------------------------------------------ enum values
\* AuthenticationMethod::from_u8 (derive Primitive): 0 and 2 only.
AuthenticationMethod_from_u8(b) ==
    IF b = 0 THEN "NoAuthentication"
    ELSE IF b = 2 THEN "UsernamePassword"
    ELSE "None"

\* `method as u8`
AuthenticationMethod_as_u8(m) == IF m = "NoAuthentication" THEN 0 ELSE 2

Command_from_u8(b) == IF b = 1 THEN "Connect" ELSE "None"

AddressType_from_u8(b) ==
    IF b = 1 THEN "Ipv4"
    ELSE IF b = 3 THEN "Domain"
    ELSE IF b = 4 THEN "Ipv6"
    ELSE "None"

AddressType_as_u8(t) == IF t = "Ipv4" THEN 1 ELSE IF t = "Domain" THEN 3 ELSE 4

ResponseCode_as_u8(c) == IF c = "Success" THEN 0 ELSE 1

AuthStatusCode_as_u8(c) == IF c = "Success" THEN 0 ELSE 1

\* ------------------------------------------------------------- auth policy
NoCredentials == [set |-> FALSE, username |-> <<>>, password |-> <<>>]

Credentials_new(u, p) == [set |-> TRUE, username |-> u, password |-> p]

\* Vec::contains: linear scan from the front.
RECURSIVE contains(_, _)
contains(methods, m) ==
    IF methods = <<>> THEN FALSE
    ELSE IF Head(methods) = m THEN TRUE
    ELSE contains(Tail(methods), m)

\* Variant: the credentials are not consulted.
expected_method_ignores_credentials(creds) == "UsernamePassword"

\* The method select_authentication looks for: the match on self.credentials.
expected_method(creds) ==
    IF creds.set THEN "UsernamePassword" ELSE "NoAuthentication"

\* Variant: only the first offered method is compared.
select_authentication_first_only(creds, methods) ==
    IF methods # <<>> /\ Head(methods) = expected_method(creds)
    THEN expected_method(creds)
    ELSE "None"

\* Option<AuthenticationMethod>: the method, or "None".
select_authentication(creds, methods) ==
    IF contains(methods, expected_method(creds)) THEN expected_method(creds)
    ELSE "None"

authenticate(creds, username, password) ==
    IF creds.set
    THEN creds.username = username /\ creds.password = password
    ELSE FALSE

\* ------------------------------------------------------------- wire codec
\* Result of a parse over the bytes s available on the stream:
\*   tag "ok"   : msg parsed, `used` bytes consumed
\*   tag "err"  : parse failed with error `kind` after consuming `used` bytes
\*   tag "more" : the read is pending, fewer bytes are available than needed
NoMessage == [none |-> TRUE]

ParseOk(msg, used) == [tag |-> "ok", kind |-> "none", used |-> used, msg |-> msg]

ParseErr(kind, used) == [tag |-> "err", kind |-> kind, used |-> used, msg |-> NoMessage]

ParseMore == [tag |-> "more", kind |-> "none", used |-> 0, msg |-> NoMessage]

\* String::from_utf8: well-formed UTF-8 byte sequences (Unicode table 3-7).
Cont(b) == b >= 128 /\ b <= 191

RECURSIVE from_utf8_ok(_)
from_utf8_ok(b) ==
    IF b = <<>> THEN TRUE
    ELSE IF b[1] <= 127 THEN from_utf8_ok(Drop(b, 1))
    ELSE IF b[1] >= 194 /\ b[1] <= 223
         THEN Len(b) >= 2 /\ Cont(b[2]) /\ from_utf8_ok(Drop(b, 2))
    ELSE IF b[1] >= 224 /\ b[1] <= 239
         THEN /\ Len(b) >= 3
              /\ Cont(b[2]) /\ Cont(b[3])
              /\ (b[1] = 224 => b[2] >= 160)
              /\ (b[1] = 237 => b[2] <= 159)
              /\ from_utf8_ok(Drop(b, 3))
    ELSE IF b[1] >= 240 /\ b[1] <= 244
         THEN /\ Len(b) >= 4
              /\ Cont(b[2]) /\ Cont(b[3]) /\ Cont(b[4])
              /\ (b[1] = 240 => b[2] >= 144)
              /\ (b[1] = 244 => b[2] <= 143)
              /\ from_utf8_ok(Drop(b, 4))
    ELSE FALSE

\* ReadString::read_string starting at byte position pos (1-based) of s.
\* `used` is the number of bytes of s consumed when the call returns.
read_string(s, pos) ==
    IF Len(s) < pos THEN ParseMore
    ELSE LET length == s[pos] IN
         IF Len(s) < pos + length THEN ParseMore
         ELSE LET domain == SubSeq(s, pos + 1, pos + length) IN
              IF ~from_utf8_ok(domain)
              THEN ParseErr("MalformedMessage", pos + length)
              ELSE ParseOk(domain, pos + length)

\* The method loop of HelloRequest::new: i methods read so far.
RECURSIVE read_methods(_, _, _, _, _)
read_methods(s, version, method_count, i, methods) ==
    IF i = method_count
    THEN ParseOk([version |-> version, methods |-> methods], 2 + method_count)
    ELSE IF Len(s) < 3 + i THEN ParseMore
    ELSE LET method == AuthenticationMethod_from_u8(s[3 + i]) IN
         IF method = "None" THEN ParseErr("MalformedMessage", 3 + i)
         ELSE read_methods(s, version, method_count, i + 1, Append(methods, method))

HelloRequest_new(s) ==
    IF Len(s) < 2 THEN ParseMore
    ELSE read_methods(s, s[1], s[2], 0, <<>>)

\* read_u32 / read_u16: big-endian.  A u32 is kept as its two 16-bit halves
\* << high, low >>, so that every value of the type is representable.
read_u32(b) == << b[1] * 256 + b[2], b[3] * 256 + b[4] >>

\* Variant: little-endian.
read_u16_le(b) == b[2] * 256 + b[1]

read_u16(b) == b[1] * 256 + b[2]

\* Ipv4Addr::from(u32) followed by octets().
Ipv4Addr_octets(addr) ==
    << addr[1] \div 256, addr[1] % 256, addr[2] \div 256, addr[2] % 256 >>

\* Variant: little-endian.
write_u16_le(port) == << port % 256, port \div 256 >>

\* write_u16: big-endian.
write_u16(port) == << port \div 256, port % 256 >>

ClientRequest_port(s, version, command, address, pos) ==
    IF Len(s) < pos + 1 THEN ParseMore
    ELSE ParseOk([version |-> version, command |-> command, address |-> address,
                  port |-> read_u16(SubSeq(s, pos, pos + 1))], pos + 1)

ClientRequest_new(s) ==
    IF Len(s) < 2 THEN ParseMore
    ELSE LET version == s[1]
             command == Command_from_u8(s[2]) IN
    IF command = "None" THEN ParseErr("MalformedMessage", 2)
    ELSE IF Len(s) < 4 THEN ParseMore
    ELSE LET address_type == AddressType_from_u8(s[4]) IN
    IF address_type = "None" THEN ParseErr("MalformedMessage", 4)
    ELSE IF address_type = "Ipv4"
    THEN IF Len(s) < 8 THEN ParseMore
         ELSE ClientRequest_port(s, version, command,
                  [type |-> "V4", octets |-> Ipv4Addr_octets(read_u32(SubSeq(s, 5, 8)))], 9)
    ELSE IF address_type = "Ipv6"
    THEN IF Len(s) < 20 THEN ParseMore
         ELSE ClientRequest_port(s, version, command,
                  [type |-> "V6", octets |-> SubSeq(s, 5, 20)], 21)
    ELSE LET d == read_string(s, 5) IN
         IF d.tag = "ok"
         THEN ClientRequest_port(s, version, command,
                  [type |-> "Domain", octets |-> d.msg], d.used + 1)
         ELSE d

AuthRequest_new(s) ==
    IF Len(s) < 1 THEN ParseMore
    ELSE LET version == s[1] IN
    IF version # 1 THEN ParseErr("Generic", 1)
    ELSE LET username == read_string(s, 2) IN
    IF username.tag # "ok" THEN username
    ELSE LET password == read_string(s, username.used + 1) IN
    IF password.tag # "ok" THEN password
    ELSE ParseOk([version |-> version, username |-> username.msg,
                  password |-> password.msg], password.used)

\* A pending read on a stream whose peer has closed fails with an Io error
\* (UnexpectedEof); every byte that was available has been consumed.
AtEof(p, s, eof) ==
    IF p.tag = "more" /\ eof THEN ParseErr("Io", Len(s)) ELSE p

HelloResponse_write(version, method) == << version, AuthenticationMethod_as_u8(method) >>

AuthResponse_write(version, status) == << version, AuthStatusCode_as_u8(status) >>

\* Variant: the reserved byte is not written.
RequestResponse_write_no_rsv(version, response_code, bind_address, port) ==
    << version, ResponseCode_as_u8(response_code) >>
    \o << AddressType_as_u8("Ipv4") >> \o bind_address.octets
    \o write_u16(port)

RequestResponse_write(version, response_code, bind_address, port) ==
    << version, ResponseCode_as_u8(response_code), 0 >>
    \o (IF bind_address.type = "V4"
        THEN << AddressType_as_u8("Ipv4") >> \o bind_address.octets
        ELSE << AddressType_as_u8("Ipv6") >> \o bind_address.octets)
    \o write_u16(port)

\* ------------------------------------------------------------------ state
VARIABLES
    credentials,   \* Context.credentials (set once, shared read-only)
    state,         \* the driver's State value; "Dropped" once process returned Err
    running,       \* the per-connection task is still in its loop
    error,         \* the Err kind the last process call returned, or "none"
    clientOpen,    \* the server still owns the client stream
    outbound,      \* "none", "open" or "closed": the outbound TcpStream
    cin,           \* bytes sent by the client, not yet read from the socket
    crbuf,         \* bytes read from the socket, held in the client's BufReader
    pipelined,     \* what the BufReader held when the relay started
    cinEOF,        \* the client closed its sending side
    cout,          \* bytes delivered to the client, in order
    oin,           \* bytes sent by the destination, not yet read by the server
    oinEOF,        \* the destination closed its sending side
    oout,          \* bytes delivered to the destination, in order
    pc,            \* per Proxier: "idle", "read", "write", "flush", "done"
    buffer,        \* per Proxier: bytes read and still to be pushed to the destination
    bytesRead,     \* per Proxier: every byte its reader returned, in order
    bytesWritten,  \* per Proxier: every byte its writer accepted, in order
    relayEnd,      \* per Proxier: how run ended ("none", "Finished", "Io")
    last,          \* what the last process call did
    authOk,        \* an AuthRequest equal to the configured credentials was received
    requestParsed, \* a ClientRequest was parsed on this connection
    connectTried,  \* TcpStream::connect was called on this connection
    sends,         \* chunks the client has sent
    peerSends,     \* chunks the destination has sent
    cwbuf,         \* bytes in the client stream's BufWriter, not yet flushed
    okCalls,       \* process calls that returned Ok on this connection
    call           \* a direct call of a codec / policy function and its result

vars == << credentials, state, running, error, clientOpen, outbound, cin, cinEOF,
           cout, oin, oinEOF, oout, pc, buffer, bytesRead, bytesWritten, relayEnd,
           last, authOk, requestParsed, connectTried, sends, peerSends,
           cwbuf, okCalls, call , crbuf, pipelined >>

Proxiers == {"client", "output"}

\* Strings used by the configuration and by the clients of the model.
U == << 117 >>
PW == << 112, 119 >>

Configs == { NoCredentials, Credentials_new(U, PW) }

\* What a client may put on the wire in one send: hello / auth / request
\* messages (well formed, malformed and truncated), a request directly
\* followed by payload, and payload.
Ipv6Bytes == << 222, 173, 0, 0, 0, 0, 0, 0, 0, 0, 0, 0, 0, 0, 190, 239 >>

HelloChunks ==
    { << 5, 1, 0 >>, << 5, 1, 2 >>, << 5, 2, 0, 2 >>, << 5, 2, 2, 0 >>, << 5, 2, 2, 2 >>,
      << 5, 1, 1 >>, << 5, 2, 1, 2 >>, << 4, 1, 0 >>, << 4, 1, 2 >>, << 5, 0 >>, << 4, 0 >>,
      << 5, 2, 0 >>, << 5, 3, 0, 0, 2 >>, << 5, 3, 2, 0, 0 >> }

AuthChunks ==
    { << 1, 1, 117, 2, 112, 119 >>, << 1, 1, 117, 2, 112, 113 >>,
      << 1, 1, 118, 2, 112, 119 >>, << 2, 1, 117, 2, 112, 119 >>,
      << 1, 0, 0 >>, << 1, 1, 255, 1, 112 >> }

RequestChunks ==
    { << 5, 1, 0, 1, 1, 2, 3, 4, 31, 144 >>,
      << 5, 1, 9, 1, 1, 2, 3, 4, 31, 144 >>,
      << 4, 1, 0, 1, 1, 2, 3, 4, 31, 144 >>,
      << 5, 2, 0, 1, 1, 2, 3, 4, 31, 144 >>,
      << 5, 1, 0, 2, 1, 2, 3, 4, 31, 144 >>,
      << 5, 1, 0, 3, 1, 102, 31, 144 >>,
      << 5, 1, 0, 3, 0, 31, 144 >>,
      << 5, 1, 0, 3, 1, 200, 31, 144 >>,
      << 5, 1, 0, 4 >> \o Ipv6Bytes \o << 31, 144 >>,
      << 5, 1, 0, 1, 1, 2, 3, 4, 31, 144, 7, 8 >>,
      << 5, 1, 0, 1, 1, 2 >> }

PayloadChunks == { << 7 >>, << 8, 9 >> }

ClientChunks == HelloChunks \cup AuthChunks \cup RequestChunks \cup PayloadChunks

\* The relay never looks at the bytes it copies, so once the connection is
\* proxying the client's sends are drawn from the payload chunks only.
Sendable(st) == IF st = "Proxying" THEN PayloadChunks ELSE ClientChunks

PeerChunks == { << 70 >>, << 80, 90 >> }

NoCall == [fn |-> "none", args |-> <<>>, result |-> <<>>]

NoLast ==
    [op |-> "none", input |-> <<>>, parse |-> "none", req |-> NoMessage, selected |-> "none",
     auth |-> "none", connect |-> "none", attempted |-> <<>>, write |-> "none",
     result |-> "none", err |-> "none"]

Init ==
    /\ credentials \in Configs
    /\ state = "AwaitingHello"
    /\ running = TRUE
    /\ error = "none"
    /\ clientOpen = TRUE
    /\ outbound = "none"
    /\ cin = <<>>
    /\ cinEOF = FALSE
    /\ cout = <<>>
    /\ oin = <<>>
    /\ oinEOF = FALSE
    /\ oout = <<>>
    /\ pc = [d \in Proxiers |-> "idle"]
    /\ buffer = [d \in Proxiers |-> <<>>]
    /\ bytesRead = [d \in Proxiers |-> <<>>]
    /\ bytesWritten = [d \in Proxiers |-> <<>>]
    /\ relayEnd = [d \in Proxiers |-> "none"]
    /\ last = NoLast
    /\ authOk = FALSE
    /\ requestParsed = FALSE
    /\ connectTried = FALSE
    /\ sends = 0
    /\ peerSends = 0
    /\ cwbuf = <<>>
    /\ okCalls = 0
    /\ call = NoCall
    /\ crbuf = <<>>
    /\ pipelined = <<>>

\* ------------------------------------------------------------ environment
ClientSend ==
    /\ clientOpen
    /\ ~cinEOF
    /\ sends < MaxSends
    /\ Len(crbuf) + Len(cin) <= MaxBacklog
    /\ \E c \in Sendable(state) : cin' = cin \o c
    /\ sends' = sends + 1
    /\ UNCHANGED << cwbuf, okCalls, call, crbuf, pipelined >>
    /\ UNCHANGED << credentials, state, running, error, clientOpen, outbound, cinEOF,
                    cout, oin, oinEOF, oout, pc, buffer, bytesRead, bytesWritten,
                    relayEnd, last, authOk, requestParsed, connectTried, peerSends >>

ClientClose ==
    /\ clientOpen
    /\ ~cinEOF
    /\ cinEOF' = TRUE
    /\ UNCHANGED << cwbuf, okCalls, call, crbuf, pipelined >>
    /\ UNCHANGED << credentials, state, running, error, clientOpen, outbound, cin,
                    cout, oin, oinEOF, oout, pc, buffer, bytesRead, bytesWritten,
                    relayEnd, last, authOk, requestParsed, connectTried, sends, peerSends >>

PeerSend ==
    /\ outbound = "open"
    /\ ~oinEOF
    /\ peerSends < MaxPeerSends
    /\ \E c \in PeerChunks : oin' = oin \o c
    /\ peerSends' = peerSends + 1
    /\ UNCHANGED << cwbuf, okCalls, call, crbuf, pipelined >>
    /\ UNCHANGED << credentials, state, running, error, clientOpen, outbound, cin, cinEOF,
                    cout, oinEOF, oout, pc, buffer, bytesRead, bytesWritten,
                    relayEnd, last, authOk, requestParsed, connectTried, sends >>

PeerClose ==
    /\ outbound = "open"
    /\ ~oinEOF
    /\ oinEOF' = TRUE
    /\ UNCHANGED << cwbuf, okCalls, call, crbuf, pipelined >>
    /\ UNCHANGED << credentials, state, running, error, clientOpen, outbound, cin, cinEOF,
                    cout, oin, oout, pc, buffer, bytesRead, bytesWritten,
                    relayEnd, last, authOk, requestParsed, connectTried, sends, peerSends >>

\* ------------------------------------------------- the handshake handlers
\* What one process call did: the Result it returned (next / err), the bytes
\* it handed to the client writer and whether write() returned Ok, and the
\* outcome of TcpStream::connect.
Outcome(op, p, selected, auth, connect, attempted, write, next, err) ==
    [next |-> next, err |-> err, connect |-> connect,
     wrote |-> IF write = "ok" THEN attempted ELSE <<>>,
     last |-> [op |-> op, input |-> <<>>, parse |-> IF p.tag = "ok" THEN "ok" ELSE p.kind,
               req |-> p.msg, selected |-> selected, auth |-> auth,
               connect |-> connect, attempted |-> attempted, write |-> write,
               result |-> next, err |-> err]]

\* Variant: the empty method list is not rejected.
hello_rejects_version_only(request) == request.version # 5

\* The two rejections of process_await_hello.
hello_rejects(request) == request.version # 5 \/ Len(request.methods) = 0

\* Variant: the authentication phase is skipped.
hello_next_skips_auth(selected_method) == "AwaitingClientRequest"

\* The final match of process_await_hello on the selected method.
hello_next(selected_method) ==
    IF selected_method = "NoAuthentication" THEN "AwaitingClientRequest"
    ELSE "AwaitingAuth"

\* State::process_await_hello.  p is the result of HelloRequest::new, wok
\* whether response.write (write_u8, write_u8, flush) succeeds.
process_await_hello(creds, p, wok) ==
    IF p.tag = "err"
    THEN Outcome("hello", p, "none", "none", "none", <<>>, "none", "Dropped", p.kind)
    ELSE LET request == p.msg IN
    IF hello_rejects(request)
    THEN Outcome("hello", p, "none", "none", "none", <<>>, "none", "Dropped", "MalformedMessage")
    ELSE LET selected_method == select_authentication(creds, request.methods) IN
    IF selected_method = "None"
    THEN Outcome("hello", p, "None", "none", "none", <<>>, "none", "Finished", "none")
    ELSE LET response == HelloResponse_write(request.version, selected_method) IN
    IF ~wok
    THEN Outcome("hello", p, selected_method, "none", "none", response, "failed", "Dropped", "Io")
    ELSE Outcome("hello", p, selected_method, "none", "none", response, "ok",
                 hello_next(selected_method), "none")

\* Variant: a failed authentication is retried.
auth_next_retries(status) ==
    IF status = "Failure" THEN "AwaitingAuth" ELSE "AwaitingClientRequest"

\* The state process_await_auth returns after writing the AuthResponse.
auth_next(status) == "AwaitingClientRequest"

\* State::process_await_auth.
process_await_auth(creds, p, wok) ==
    IF p.tag = "err"
    THEN Outcome("auth", p, "none", "none", "none", <<>>, "none", "Dropped", p.kind)
    ELSE LET request == p.msg
             ok == authenticate(creds, request.username, request.password)
             status == IF ok THEN "Success" ELSE "Failure"
             response == AuthResponse_write(request.version, status) IN
    IF ~wok
    THEN Outcome("auth", p, "none", status, "none", response, "failed", "Dropped", "Io")
    ELSE Outcome("auth", p, "none", status, "none", response, "ok",
                 auth_next(status), "none")

\* Address::Ip(IpAddr::V4(Ipv4Addr::from(0)))
BindAddress == [type |-> "V4", octets |-> Ipv4Addr_octets(<< 0, 0 >>)]

\* State::process_await_client_request.  cok is whether TcpStream::connect
\* succeeds.
process_await_client_request(p, cok, wok) ==
    IF p.tag = "err"
    THEN Outcome("request", p, "none", "none", "none", <<>>, "none", "Dropped", p.kind)
    ELSE LET request == p.msg IN
    IF request.version # 5
    THEN Outcome("request", p, "none", "none", "none", <<>>, "none", "Dropped", "MalformedMessage")
    ELSE IF ~cok
    THEN Outcome("request", p, "none", "none", "failed", <<>>, "none", "Dropped", "Io")
    ELSE LET response == RequestResponse_write(request.version, "Success", BindAddress, 0) IN
    IF ~wok
    THEN Outcome("request", p, "none", "none", "ok", response, "failed", "Dropped", "Io")
    ELSE Outcome("request", p, "none", "none", "ok", response, "ok", "Proxying", "none")

\* State::process: the match on the state.  The Proxying arm is do_proxy,
\* whose steps are the Proxier actions below; its result is Ok(Finished).
process(st, creds, p, cok, wok) ==
    IF st = "AwaitingHello" THEN process_await_hello(creds, p, wok)
    ELSE IF st = "AwaitingAuth" THEN process_await_auth(creds, p, wok)
    ELSE IF st = "AwaitingClientRequest" THEN process_await_client_request(p, cok, wok)
    ELSE IF st = "Proxying"
    THEN Outcome("proxy", ParseMore, "none", "none", "none", <<>>, "none", "Finished", "none")
    ELSE Outcome("finished", ParseMore, "none", "none", "none", <<>>, "none",
                 "Dropped", "Finished")

\* Variant: the loop only stops on Err.
keeps_running_until_err(o) == o.err = "none"

\* The two breaks of the driver loop: on Err and on is_finished().
keeps_running(o) == o.err = "none" /\ o.next # "Finished"

\* Variant: the outbound stream outlives a failed reply.
owned_outbound_leaks(o, cur) == IF o.connect = "ok" THEN "open" ELSE cur

\* The outbound TcpStream after process_await_client_request: moved into
\* Proxying, or dropped (closed) when the reply cannot be written.
owned_outbound(o, cur) ==
    IF o.connect = "ok"
    THEN (IF o.next = "Proxying" THEN "open" ELSE "closed")
    ELSE cur

\* Variant: the flush is missing.
flush_missing(pending) == [wire |-> <<>>, pending |-> pending]

\* `output.flush()`, the last statement of every Writeable::write: whatever
\* is pending in the BufWriter goes to the wire.
flush(pending) == [wire |-> pending, pending |-> <<>>]

\* The BufReader of the buffered client stream serving a parse of `used`
\* bytes: reads are served from its buffer, and when that runs empty it is
\* refilled with everything the socket has (up to its capacity, 8 KiB).
fill_buf(rbuf, sock, used) ==
    IF used <= Len(rbuf)
    THEN [rbuf |-> Drop(rbuf, used), sock |-> sock]
    ELSE [rbuf |-> Drop(rbuf \o sock, used), sock |-> <<>>]

\* Variant: the client stream is converted with into_unbuffered, whose
\* BufReader::into_inner discards the buffered bytes.
proxying_client_stream_unbuffered(rbuf) == <<>>

\* `Self::Proxying(client_stream, ...)`: the client stream is moved into the
\* Proxying state as it is, BufReader and its contents included.
proxying_client_stream(rbuf) == rbuf

\* The driver loop of main: state = process(state), stop on Err or Finished.
\* A stream is closed when the value owning it is dropped.
Drive(o, used) ==
    /\ state' = o.next
    /\ error' = o.err
    /\ running' = keeps_running(o)
    /\ clientOpen' = running'
    /\ outbound' = owned_outbound(o, outbound)
    /\ cin' = fill_buf(crbuf, cin, used).sock
    /\ crbuf' = IF o.next = "Proxying"
                THEN proxying_client_stream(fill_buf(crbuf, cin, used).rbuf)
                ELSE fill_buf(crbuf, cin, used).rbuf
    /\ pipelined' = IF o.next = "Proxying"
                    THEN fill_buf(crbuf, cin, used).rbuf
                    ELSE pipelined
    /\ cout' = cout \o flush(cwbuf \o o.wrote).wire
    /\ cwbuf' = flush(cwbuf \o o.wrote).pending
    /\ okCalls' = IF o.err = "none" THEN okCalls + 1 ELSE okCalls
    /\ pc' = IF o.next = "Proxying" THEN [d \in Proxiers |-> "read"] ELSE pc
    /\ last' = [o.last EXCEPT !.input = crbuf \o cin]
    /\ authOk' = (authOk \/ (/\ o.last.op = "auth"
                            /\ o.last.parse = "ok"
                            /\ credentials.set
                            /\ o.last.req.username = credentials.username
                            /\ o.last.req.password = credentials.password))
    /\ requestParsed' = (requestParsed \/ (o.last.op = "request" /\ o.last.parse = "ok"))
    /\ connectTried' = (connectTried \/ o.connect # "none")
    /\ UNCHANGED << credentials, cinEOF, oin, oinEOF, oout, buffer, bytesRead,
                    bytesWritten, relayEnd, sends, peerSends, call >>

ProcessAwaitHello ==
    /\ running
    /\ state = "AwaitingHello"
    /\ LET p == AtEof(HelloRequest_new(crbuf \o cin), crbuf \o cin, cinEOF) IN
       /\ p.tag # "more"
       /\ \E wok \in BOOLEAN : Drive(process(state, credentials, p, TRUE, wok), p.used)

ProcessAwaitAuth ==
    /\ running
    /\ state = "AwaitingAuth"
    /\ LET p == AtEof(AuthRequest_new(crbuf \o cin), crbuf \o cin, cinEOF) IN
       /\ p.tag # "more"
       /\ \E wok \in BOOLEAN : Drive(process(state, credentials, p, TRUE, wok), p.used)

ProcessAwaitClientRequest ==
    /\ running
    /\ state = "AwaitingClientRequest"
    /\ LET p == AtEof(ClientRequest_new(crbuf \o cin), crbuf \o cin, cinEOF) IN
       /\ p.tag # "more"
       /\ \E cok \in BOOLEAN, wok \in BOOLEAN :
              Drive(process(state, credentials, p, cok, wok), p.used)

\* ---------------------------------------------------------------- the relay
\* Variant: join!, which waits for both futures.
join_all(pcs) == \A d \in Proxiers : pcs[d] = "done"

\* try_join!(client_proxier.run(), output_proxier.run()): run only ever
\* returns Err, and try_join! completes as soon as one of its futures does.
try_join(pcs) == \E d \in Proxiers : pcs[d] = "done"

ProxyLast ==
    [op |-> "proxy", input |-> <<>>, parse |-> "none", req |-> NoMessage, selected |-> "none",
     auth |-> "none", connect |-> "none", attempted |-> <<>>, write |-> "none",
     result |-> "Finished", err |-> "none"]

\* The tail of State::do_proxy: once try_join! completes the result is
\* dropped, Ok(Finished) is returned, both streams are dropped and the driver
\* leaves its loop.
do_proxy(pcs) ==
    /\ pc' = pcs
    /\ IF try_join(pcs)
       THEN /\ state' = "Finished"
            /\ running' = FALSE
            /\ clientOpen' = FALSE
            /\ outbound' = "closed"
            /\ last' = ProxyLast
            /\ okCalls' = okCalls + 1
       ELSE UNCHANGED << state, running, clientOpen, outbound, last, okCalls >>
    /\ UNCHANGED << credentials, call, error, cinEOF, oinEOF, authOk, requestParsed,
                    connectTried, sends, peerSends, pipelined >>

\* Variant: `&buffer[1..bytes_read]`.
slice_off_by_one(buf, bytes_read) == SubSeq(buf, 2, bytes_read)

\* `&buffer[0..bytes_read]`: the part of the buffer handed to write_all.
slice(buf, bytes_read) == SubSeq(buf, 1, bytes_read)

\* Variant: write instead of write_all, one attempt only.
after_write_once(k, n, at) == "read"

\* write_all / flush keep the Proxier where it is until all n pending bytes
\* are out; only then is the next read issued.
after_write(k, n, at) == IF k = n THEN "read" ELSE at

\* What a read of the direction's reader is served from: the client's
\* BufReader hands out what it holds before it reads the socket again.
Source(d) ==
    IF d = "client" THEN (IF crbuf # <<>> THEN crbuf ELSE cin) ELSE oin

\* The byte counts `reader.read(&mut buffer)` can return.
ReadSizes(d) ==
    IF d = "client" /\ crbuf # <<>>
    THEN { Min(Len(crbuf), BufferLen) }
    ELSE 1..Min(Len(Source(d)), BufferLen)

SourceEOF(d) == IF d = "client" THEN cinEOF ELSE oinEOF

\* Proxier::run, `reader.read(&mut buffer)` returning n > 0 bytes.  The
\* client_proxier writes to the unbuffered outbound stream, so its write_all
\* may be pending; the output_proxier writes to the client's BufWriter, which
\* takes the whole chunk at once and leaves it pending in flush.
ProxierRead(d) ==
    /\ state = "Proxying"
    /\ pc[d] = "read"
    /\ Source(d) # <<>>
    /\ \E n \in ReadSizes(d) :
         /\ buffer' = [buffer EXCEPT ![d] = slice(Take(Source(d), n), n)]
         /\ bytesRead' = [bytesRead EXCEPT ![d] = @ \o Take(Source(d), n)]
         /\ IF d = "client"
            THEN /\ IF crbuf # <<>>
                    THEN crbuf' = Drop(crbuf, n) /\ UNCHANGED cin
                    ELSE cin' = Drop(cin, n) /\ UNCHANGED crbuf
                 /\ UNCHANGED << oin, bytesWritten, cwbuf >>
            ELSE /\ oin' = Drop(oin, n)
                 /\ bytesWritten' = [bytesWritten EXCEPT ![d] =
                                       @ \o slice(Take(Source(d), n), n)]
                 /\ cwbuf' = cwbuf \o slice(Take(Source(d), n), n)
                 /\ UNCHANGED << cin, crbuf >>
    /\ do_proxy([pc EXCEPT ![d] = IF d = "client" THEN "write" ELSE "flush"])
    /\ UNCHANGED << cout, oout, relayEnd >>

\* read returning 0 bytes: run returns Err(Error::Finished).
ProxierEof(d) ==
    /\ state = "Proxying"
    /\ pc[d] = "read"
    /\ Source(d) = <<>>
    /\ SourceEOF(d)
    /\ relayEnd' = [relayEnd EXCEPT ![d] = "Finished"]
    /\ do_proxy([pc EXCEPT ![d] = "done"])
    /\ UNCHANGED << cin, crbuf, oin, cout, oout, buffer, bytesRead, bytesWritten, cwbuf >>

\* read, write_all or flush failing: run returns Err(Error::Io).
ProxierIoError(d) ==
    /\ state = "Proxying"
    /\ pc[d] \in {"read", "write", "flush"}
    /\ relayEnd' = [relayEnd EXCEPT ![d] = "Io"]
    /\ do_proxy([pc EXCEPT ![d] = "done"])
    /\ UNCHANGED << cin, crbuf, oin, cout, oout, buffer, bytesRead, bytesWritten, cwbuf >>

\* write_all making progress on the outbound socket: k more bytes accepted.
\* The flush of the unbuffered stream that follows is immediate.
ProxierWrite(d) ==
    /\ state = "Proxying"
    /\ pc[d] = "write"
    /\ \E k \in 1..Len(buffer[d]) :
         /\ oout' = oout \o Take(buffer[d], k)
         /\ bytesWritten' = [bytesWritten EXCEPT ![d] = @ \o Take(buffer[d], k)]
         /\ buffer' = [buffer EXCEPT ![d] = Drop(@, k)]
         /\ do_proxy([pc EXCEPT ![d] = after_write(k, Len(buffer[d]), "write")])
    /\ UNCHANGED << cin, crbuf, oin, cout, bytesRead, relayEnd, cwbuf >>

\* flush of the client's BufWriter making progress: k more bytes on the wire.
ProxierFlush(d) ==
    /\ state = "Proxying"
    /\ pc[d] = "flush"
    /\ \E k \in 1..Len(cwbuf) :
         /\ cout' = cout \o Take(cwbuf, k)
         /\ cwbuf' = Drop(cwbuf, k)
         /\ buffer' = [buffer EXCEPT ![d] = Drop(@, k)]
         /\ do_proxy([pc EXCEPT ![d] = after_write(k, Len(cwbuf), "flush")])
    /\ UNCHANGED << cin, crbuf, oin, oout, bytesRead, bytesWritten, relayEnd >>

Next ==
    \/ ClientSend
    \/ ClientClose
    \/ PeerSend
    \/ PeerClose
    \/ ProcessAwaitHello
    \/ ProcessAwaitAuth
    \/ ProcessAwaitClientRequest
    \/ \E d \in Proxiers : ProxierRead(d)
    \/ \E d \in Proxiers : ProxierEof(d)
    \/ \E d \in Proxiers : ProxierIoError(d)
    \/ ProxierWrite("client")
    \/ ProxierFlush("output")

Spec == Init /\ [][Next]_vars

\* ------------------------------------------- direct calls of the functions
\* The codec and the policy are public functions of the library; here each
\* is called directly on inputs drawn from bounded sets.
connVars == << state, running, error, clientOpen, outbound, cin, cinEOF,
               cout, oin, oinEOF, oout, pc, buffer, bytesRead, bytesWritten, relayEnd,
               last, authOk, requestParsed, connectTried, sends, peerSends,
               cwbuf, okCalls, crbuf, pipelined >>

Strings == { <<>>, U, << 118 >>, PW, << 112, 113 >>, U \o PW }

CallAuthenticate ==
    /\ call = NoCall
    /\ \E username \in Strings, password \in Strings :
         call' = [fn |-> "authenticate", args |-> << username, password >>,
                  result |-> authenticate(credentials, username, password)]
    /\ UNCHANGED << credentials, connVars >>

\* ClientRequest inputs: every prefix of header, address bytes and trailer.
RequestHeads ==
    { << ver, cmd, rsv, atyp >> :
        ver \in {4, 5}, cmd \in {0, 1, 2}, rsv \in {0, 9}, atyp \in 0..5 }

RequestTails ==
    { << 1, 2, 3, 4, 31, 144 >>,
      Ipv6Bytes \o << 31, 144 >>,
      << 1, 102, 31, 144 >>,
      << 3, 102, 111, 111, 31, 144 >>,
      << 0, 31, 144 >>,
      << 2, 195, 169, 1, 187 >>,
      << 2, 200, 65, 0, 80 >> }

Trailers == { <<>>, << 7, 8 >> }

RequestInputs ==
    { Take(h \o t \o x, n) :
        h \in RequestHeads, t \in RequestTails, x \in Trailers, n \in 0..MaxInput }

CallClientRequestNew ==
    /\ call = NoCall
    /\ \E s \in RequestInputs, eof \in BOOLEAN :
         call' = [fn |-> "ClientRequest::new", args |-> << s, eof >>,
                  result |-> AtEof(ClientRequest_new(s), s, eof)]
    /\ UNCHANGED << credentials, connVars >>

BindAddresses ==
    { [type |-> "V4", octets |-> << 0, 0, 0, 0 >>],
      [type |-> "V4", octets |-> << 1, 2, 3, 4 >>],
      [type |-> "V4", octets |-> << 255, 255, 255, 255 >>],
      [type |-> "V6", octets |-> Ipv6Bytes] }

CallRequestResponseWrite ==
    /\ call = NoCall
    /\ \E version \in {1, 5}, code \in {"Success", "GeneralFailure"},
          address \in BindAddresses, port \in {0, 80, 8080, 65535} :
         call' = [fn |-> "RequestResponse::write",
                  args |-> << version, code, address, port >>,
                  result |-> RequestResponse_write(version, code, address, port)]
    /\ UNCHANGED << credentials, connVars >>

CallNext ==
    \/ CallAuthenticate
    \/ CallClientRequestNew
    \/ CallRequestResponseWrite

SpecCalls == Init /\ [][CallNext]_vars

TypeOK ==
    /\ state \in {"AwaitingHello", "AwaitingAuth", "AwaitingClientRequest",
                  "Proxying", "Finished", "Dropped"}
    /\ running \in BOOLEAN
    /\ outbound \in {"none", "open", "closed"}
    /\ \A d \in Proxiers : pc[d] \in {"idle", "read", "write", "flush", "done"}

\* ------------------------------------------------------------ properties
\* The server's expected method, by name and as the byte on the wire.
ExpectedName == IF credentials.set THEN "UsernamePassword" ELSE "NoAuthentication"

ExpectedByte == IF credentials.set THEN 2 ELSE 0

\* bytes b hold a complete HelloRequest: ver, nmethods and nmethods method bytes.
HelloOnWire(b) == Len(b) >= 2 /\ Len(b) >= 2 + b[2]

\* The handshake replies that precede the RequestResponse on the wire.
RepliesBeforeRequest == IF credentials.set THEN 4 ELSE 2

SuccessReply == << 5, 0, 0, 1, 0, 0, 0, 0, 0, 0 >>

FailureReply == << 5, 1, 0, 1, 0, 0, 0, 0, 0, 0 >>

\* C1: with credentials configured, no ClientRequest is parsed, no outbound
\* connect is made and Proxying is not reached unless an AuthRequest equal to
\* the configured credentials was received earlier on the connection.
C1_NoRequestBeforeAuth ==
    credentials.set =>
        ((requestParsed \/ connectTried \/ state = "Proxying") => authOk)

\* C2: in AwaitingAuth, when authenticate returns false the step writes 01 01
\* and the next state is Finished; when it returns true the step writes 01 00
\* and the next state is AwaitingClientRequest.
C2_AuthFailureFinishes ==
    (last.op = "auth" /\ last.write = "ok") =>
        /\ (last.auth = "Failure" =>
               last.attempted = << 1, 1 >> /\ last.result = "Finished")
        /\ (last.auth = "Success" =>
               last.attempted = << 1, 0 >> /\ last.result = "AwaitingClientRequest")

\* C3: in AwaitingHello, when a well formed HelloRequest has no method the
\* server accepts, the server writes 05 FF to the client and the state
\* becomes Finished.
C3_NoAcceptableMethodsReply ==
    (last.op = "hello" /\ last.selected = "None") =>
        /\ last.attempted = << 5, 255 >>
        /\ last.result = "Finished"

\* C4: in AwaitingHello, a version 5 HelloRequest that lists the expected
\* method gets the reply 05 <expected> (when the write to the client does not
\* fail), and the next state is AwaitingAuth exactly if credentials are
\* configured, AwaitingClientRequest otherwise.
C4_HelloSelectsExpected ==
    ( /\ last.op = "hello"
      /\ last.parse = "ok"
      /\ last.req.version = 5
      /\ ExpectedName \in Range(last.req.methods)
      /\ last.write # "failed" ) =>
        /\ last.attempted = << 5, ExpectedByte >>
        /\ last.write = "ok"
        /\ cout = << 5, ExpectedByte >>
        /\ (last.result = "AwaitingAuth" <=> credentials.set)
        /\ (last.result = "AwaitingClientRequest" <=> ~credentials.set)
        /\ state = last.result

C4_Witness ==
    /\ last.op = "hello"
    /\ last.parse = "ok"
    /\ last.req = [version |-> 5, methods |-> << "NoAuthentication", "UsernamePassword" >>]
    /\ credentials.set
    /\ state = "AwaitingAuth"
    /\ cout = << 5, 2 >>

\* C5: in AwaitingClientRequest, a version 5 ClientRequest whose connect
\* succeeds gets the reply 05 00 00 01 00 00 00 00 00 00 (when the write to
\* the client does not fail) and the next state is Proxying, owning the
\* client stream and the new outbound stream.
C5_ConnectSuccess ==
    ( /\ last.op = "request"
      /\ last.parse = "ok"
      /\ last.req.version = 5
      /\ last.connect = "ok"
      /\ last.write # "failed" ) =>
        /\ last.attempted = SuccessReply
        /\ last.write = "ok"
        /\ SubSeq(cout, RepliesBeforeRequest + 1, RepliesBeforeRequest + 10) = SuccessReply
        /\ last.result = "Proxying"
        /\ state = "Proxying"
        /\ clientOpen
        /\ outbound = "open"

C5_Witness ==
    /\ last.op = "request"
    /\ last.input = << 5, 1, 0, 1, 1, 2, 3, 4, 31, 144 >>
    /\ last.connect = "ok"
    /\ state = "Proxying"
    /\ cout = << 5, 0 >> \o SuccessReply
    /\ outbound = "open"

\* C6: in AwaitingClientRequest, when the connect fails the server attempts
\* to write 05 01 00 01 00 00 00 00 00 00 to the client and the step returns
\* the connect error, without reaching Proxying.
C6_ConnectFailureReply ==
    (last.op = "request" /\ last.connect = "failed") =>
        /\ last.attempted = FailureReply
        /\ last.result = "Dropped"
        /\ last.err = "Io"

\* C7: a HelloRequest with a version byte other than 5, or with zero methods,
\* makes process_await_hello return MalformedMessage; nothing is written to
\* the client and no next state is produced.
C7_MalformedHello ==
    ( /\ last.op = "hello"
      /\ HelloOnWire(last.input)
      /\ (last.input[1] # 5 \/ last.input[2] = 0) ) =>
        /\ last.err = "MalformedMessage"
        /\ error = "MalformedMessage"
        /\ last.attempted = <<>>
        /\ cout = <<>>
        /\ last.result = "Dropped"
        /\ state = "Dropped"
        /\ ~running

C7_Witness ==
    /\ last.op = "hello"
    /\ last.input = << 4, 1, 0 >>
    /\ error = "MalformedMessage"
    /\ cout = <<>>
    /\ ~clientOpen

\* C8: the relay returns as soon as either Proxier terminates (EOF or an
\* I/O failure) without waiting for the other one, and the step's result is
\* the state Finished, never an error.
C8_RelayReturnsOnFirstEnd ==
    /\ (state = "Proxying" => \A d \in Proxiers : pc[d] \in {"read", "write", "flush"})
    /\ ((\E d \in Proxiers : pc[d] = "done") =>
            /\ state = "Finished"
            /\ ~running
            /\ error = "none"
            /\ last.op = "proxy"
            /\ last.result = "Finished"
            /\ last.err = "none")
    /\ (last.op = "proxy" => state = "Finished" /\ error = "none")
    /\ Cardinality({d \in Proxiers : pc[d] = "done"}) <= 1

C8_Witness ==
    /\ state = "Finished"
    /\ last.op = "proxy"
    /\ pc["output"] = "done"
    /\ relayEnd["output"] = "Finished"
    /\ pc["client"] = "write"
    /\ error = "none"

\* C9 as stated: in each direction the bytes written are always a prefix of
\* the bytes read, and when the relay returns the two sequences are equal.
C9_AllReadBytesWritten ==
    \A d \in Proxiers :
        /\ IsPrefix(bytesWritten[d], bytesRead[d])
        /\ (last.op = "proxy" => bytesWritten[d] = bytesRead[d])

\* The part of the last chunk read by Proxier d that its writer has not
\* accepted.
Unwritten(d) == IF pc[d] = "write" \/ (pc[d] = "done" /\ d = "client") THEN buffer[d] ELSE <<>>

\* C9 amended: in each direction the bytes written are always a prefix of
\* the bytes read; the bytes read and not written are the unwritten rest of
\* the last chunk read (at most 4096 bytes), and when the relay returns that
\* rest is empty unless the direction's write failed or the direction was
\* cancelled in the middle of its write.
C9_WrittenPrefixOfRead ==
    \A d \in Proxiers :
        /\ IsPrefix(bytesWritten[d], bytesRead[d])
        /\ bytesRead[d] = bytesWritten[d] \o Unwritten(d)
        /\ Len(Unwritten(d)) <= BufferLen
        /\ (last.op = "proxy" /\ relayEnd[d] = "Finished" => bytesWritten[d] = bytesRead[d])
        /\ (last.op = "proxy" /\ bytesWritten[d] # bytesRead[d] =>
                relayEnd[d] \in {"Io", "none"})

C9_Witness ==
    /\ last.op = "proxy"
    /\ relayEnd["client"] = "none"
    /\ bytesRead["client"] = << 8, 9 >>
    /\ bytesWritten["client"] = << 8 >>
    /\ bytesRead["output"] = bytesWritten["output"]
    /\ bytesRead["output"] # <<>>

\* C10: select_authentication(offered) is Some(expected) exactly if expected
\* is an element of offered and None otherwise; neither the order of offered
\* nor duplicates in it change the result.
MethodLists ==
    UNION { [1..n -> {"NoAuthentication", "UsernamePassword"}] : n \in 0..MaxMethods }

C10_SelectIffOffered ==
    (last.op = "hello" /\ last.selected # "none") =>
        /\ last.selected = (IF ExpectedName \in Range(last.req.methods)
                            THEN ExpectedName ELSE "None")
        /\ \A m \in MethodLists :
               Range(m) = Range(last.req.methods) =>
                   select_authentication(credentials, m) = last.selected

C10_Witness ==
    /\ last.op = "hello"
    /\ last.parse = "ok"
    /\ credentials.set
    /\ last.req.methods = << "NoAuthentication", "NoAuthentication", "UsernamePassword" >>
    /\ last.selected = "UsernamePassword"

\* C11 as stated: authenticate(username, password) is true exactly if no
\* credentials are configured, or both strings equal the configured pair.
C11_AuthenticateIff ==
    call.fn = "authenticate" =>
        (call.result <=>
            (\/ ~credentials.set
             \/ (/\ credentials.set
                 /\ call.args[1] = credentials.username
                 /\ call.args[2] = credentials.password)))

\* The wire layout of a ClientRequest, read off the bytes s.
CmdBad(s) == Len(s) >= 2 /\ s[2] # 1

AtypBad(s) == Len(s) >= 4 /\ s[4] \notin {1, 3, 4}

AddrLen(s) ==
    IF s[4] = 1 THEN 4
    ELSE IF s[4] = 4 THEN 16
    ELSE IF Len(s) >= 5 THEN 1 + s[5] ELSE 256

WireLen(s) == 4 + AddrLen(s) + 2

DomainBad(s) ==
    /\ Len(s) >= 5
    /\ s[4] = 3
    /\ Len(s) >= 5 + s[5]
    /\ ~from_utf8_ok(SubSeq(s, 6, 5 + s[5]))

WireRequest(s) ==
    [version |-> s[1], command |-> "Connect",
     address |-> [type |-> IF s[4] = 1 THEN "V4" ELSE IF s[4] = 4 THEN "V6" ELSE "Domain",
                  octets |-> IF s[4] = 3 THEN SubSeq(s, 6, 5 + s[5])
                             ELSE SubSeq(s, 5, 4 + AddrLen(s))],
     port |-> s[WireLen(s) - 1] * 256 + s[WireLen(s)]]

\* C14: ClientRequest::new follows the wire layout on every input: it
\* consumes ver, cmd, rsv, atyp, the address and the big-endian port and
\* nothing after them; rsv does not change the result; a cmd other than 1, an
\* atyp outside {1,3,4} or non-UTF-8 domain bytes give MalformedMessage; an
\* input that ends before the parser has what it needs gives an Io error.
C14_ClientRequestLayout ==
    (call.fn = "ClientRequest::new" /\ call.args[2]) =>
        LET s == call.args[1]
            r == call.result IN
        /\ r.tag \in {"ok", "err"}
        /\ IF CmdBad(s) \/ AtypBad(s) \/ (~CmdBad(s) /\ DomainBad(s))
           THEN r.tag = "err" /\ r.kind = "MalformedMessage"
           ELSE IF Len(s) >= 4 /\ Len(s) >= WireLen(s)
           THEN r.tag = "ok" /\ r.used = WireLen(s) /\ r.msg = WireRequest(s)
           ELSE r.tag = "err" /\ r.kind = "Io"
        /\ \A rsv \in {0, 9, 255} :
               Len(s) >= 3 =>
                   LET t == [s EXCEPT ![3] = rsv] IN
                   AtEof(ClientRequest_new(t), t, TRUE) = r

C14_Witness ==
    /\ call.fn = "ClientRequest::new"
    /\ call.args = << << 5, 1, 9, 3, 3, 102, 111, 111, 31, 144, 7, 8 >>, TRUE >>
    /\ call.result.tag = "ok"
    /\ call.result.used = 10
    /\ call.result.msg.port = 8080
    /\ call.result.msg.address = [type |-> "Domain", octets |-> << 102, 111, 111 >>]

\* C15: for an IP bind address RequestResponse::write emits exactly ver,
\* code, 00, atyp, the address octets and the port high byte then low byte:
\* atyp 1 and 4 octets (10 bytes) for IPv4, atyp 4 and 16 octets (22 bytes)
\* for IPv6.
C15_RequestResponseBytes ==
    call.fn = "RequestResponse::write" =>
        LET version == call.args[1]
            code == IF call.args[2] = "Success" THEN 0 ELSE 1
            address == call.args[3]
            port == call.args[4] IN
        /\ call.result = << version, code, 0, IF address.type = "V4" THEN 1 ELSE 4 >>
                         \o address.octets
                         \o << port \div 256, port % 256 >>
        /\ Len(call.result) = IF address.type = "V4" THEN 10 ELSE 22

C15_Witness ==
    /\ call.fn = "RequestResponse::write"
    /\ call.args = << 1, "Success", [type |-> "V6", octets |-> Ipv6Bytes], 8080 >>
    /\ call.result = << 1, 0, 0, 4 >> \o Ipv6Bytes \o << 31, 144 >>

\* C12 as stated: a method byte other than 00 and 02 among the offered
\* methods is dropped and is not an error: the expected method is still
\* selected when it is listed too, and a list of only such bytes is answered
\* with 05 FF.
C12_UnknownMethodsDropped ==
    ( /\ last.op = "hello"
      /\ HelloOnWire(last.input)
      /\ last.input[1] = 5
      /\ last.input[2] >= 1
      /\ last.write # "failed" ) =>
        LET offered == Range(SubSeq(last.input, 3, 2 + last.input[2])) IN
        /\ last.err = "none"
        /\ (ExpectedByte \in offered => last.selected = ExpectedName)
        /\ (offered \cap {0, 2} = {} => last.attempted = << 5, 255 >>)

\* C13 as stated: in AwaitingAuth an AuthRequest whose version byte is not 1
\* fails with MalformedMessage; nothing is written, no next state.
C13_AuthVersionMalformed ==
    (last.op = "auth" /\ Len(last.input) >= 1 /\ last.input[1] # 1) =>
        /\ last.err = "MalformedMessage"
        /\ last.attempted = <<>>
        /\ last.result = "Dropped"

\* C16: Finished is terminal: process applied to Finished returns the error
\* Finished and no state, the driver has stopped whenever the state is
\* Finished, and no process call is ever made on Finished.
C16_FinishedIsTerminal ==
    /\ (state = "Finished" => ~running)
    /\ last.op # "finished"
    /\ \A cok \in BOOLEAN, wok \in BOOLEAN :
           LET o == process("Finished", credentials, ParseMore, cok, wok) IN
           o.err = "Finished" /\ o.next = "Dropped"

C16_Witness ==
    /\ state = "Finished"
    /\ last.op = "hello"
    /\ last.selected = "None"
    /\ ~running
    /\ okCalls = 1

\* The client stream carries relayed bytes: the connection is proxying or
\* the relay has returned.
Relaying == state = "Proxying" \/ last.op = "proxy"

\* C17: every handshake reply is on the wire, with nothing left in the
\* client's BufWriter, when the step that produced it has returned: the
\* HelloResponse before the next message is parsed, the AuthResponse before
\* the ClientRequest is parsed, the RequestResponse before any relayed byte.
C17_RepliesFlushed ==
    /\ (state = "AwaitingAuth" => cout = << 5, 2 >> /\ cwbuf = <<>>)
    /\ (state = "AwaitingClientRequest" =>
            /\ cwbuf = <<>>
            /\ Take(cout, 2) = << 5, ExpectedByte >>
            /\ (credentials.set => Len(cout) = 4 /\ last.op = "auth"
                                   /\ Drop(cout, 2) = last.attempted)
            /\ (~credentials.set => Len(cout) = 2))
    /\ (Relaying =>
            /\ SubSeq(cout, RepliesBeforeRequest + 1, RepliesBeforeRequest + 10) = SuccessReply
            /\ Drop(cout \o cwbuf, RepliesBeforeRequest + 10) = bytesWritten["output"])

C17_Witness ==
    /\ state = "Proxying"
    /\ credentials.set
    /\ cwbuf = << 70 >>
    /\ cout = << 5, 2, 1, 0 >> \o SuccessReply

Rank(st) ==
    IF st = "AwaitingHello" THEN 1
    ELSE IF st = "AwaitingAuth" THEN 2
    ELSE IF st = "AwaitingClientRequest" THEN 3
    ELSE IF st = "Proxying" THEN 4
    ELSE IF st = "Finished" THEN 5
    ELSE 6

\* C18: the states advance strictly in the order AwaitingHello, AwaitingAuth,
\* AwaitingClientRequest, Proxying, Finished: every process step leaves the
\* state it started from for a later one, a step that returned an error is
\* not retried, and at most four process calls succeed.
C18_StatesAdvance ==
    /\ [](okCalls <= 4 /\ (error # "none" => ~running /\ state = "Dropped"))
    /\ [][(state' # state \/ okCalls' # okCalls \/ error' # error \/ last' # last)
              => Rank(state') > Rank(state)]_vars
    /\ [][~running => (state' = state /\ okCalls' = okCalls /\ last' = last)]_vars

C18_Witness ==
    /\ okCalls = 4
    /\ state = "Finished"
    /\ last.op = "proxy"
    /\ authOk

\* The relayed bytes of Proxier d that have reached its destination.
Delivered(d) == IF d = "client" THEN oout ELSE Drop(cout, RepliesBeforeRequest + 10)

\* C19: in each direction the next read is issued only after the chunk read
\* before has been completely written and flushed; the bytes read and not
\* yet delivered are the rest of one chunk of at most 4096 bytes.
C19_OneChunkInFlight ==
    Relaying =>
        \A d \in Proxiers :
            /\ bytesRead[d] = Delivered(d) \o buffer[d]
            /\ Len(buffer[d]) <= BufferLen
            /\ (pc[d] = "read" =>
                    /\ buffer[d] = <<>>
                    /\ Delivered(d) = bytesRead[d]
                    /\ (d = "output" => cwbuf = <<>>))

C19_Witness ==
    /\ state = "Proxying"
    /\ pc["client"] = "write"
    /\ bytesRead["client"] = << 7, 8, 9 >>
    /\ buffer["client"] = << 9 >>
    /\ oout = << 7, 8 >>

\* C20: the streams are owned by the connection's one state value (the
\* client stream by every live state, the outbound stream by Proxying only),
\* and whenever the driver has stopped, in Finished or on an error, the
\* client stream and the outbound stream, if it was opened, are closed.
C20_StreamsClosed ==
    /\ (clientOpen <=> state \in {"AwaitingHello", "AwaitingAuth",
                                  "AwaitingClientRequest", "Proxying"})
    /\ (outbound = "open" <=> state = "Proxying")
    /\ (running <=> clientOpen)
    /\ (~running => ~clientOpen /\ outbound \in {"none", "closed"})
    /\ (last.connect = "ok" => outbound # "none")
    /\ (last.op = "proxy" => ~clientOpen /\ outbound = "closed")

C20_Witness ==
    /\ ~running
    /\ error = "Io"
    /\ last.op = "request"
    /\ last.connect = "ok"
    /\ last.write = "failed"
    /\ outbound = "closed"
    /\ ~clientOpen

\* C21: a connection is in AwaitingAuth only if credentials are configured,
\* and an AuthRequest is only ever processed, and so authenticate only ever
\* called, on a Context that has credentials: its no-credentials branch is
\* never taken.
C21_AuthOnlyWithCredentials ==
    /\ (state = "AwaitingAuth" => credentials.set)
    /\ (last.op = "auth" => credentials.set)
    /\ (last.auth # "none" => credentials.set)
    /\ (/\ last.op = "hello"
        /\ last.result = "AwaitingAuth"
        => /\ credentials.set
           /\ last.selected = "UsernamePassword")

C21_Witness ==
    /\ credentials.set
    /\ last.op = "auth"
    /\ last.parse = "ok"
    /\ last.auth = "Failure"
    /\ last.input = << 1, 1, 117, 2, 112, 113 >>

\* C22: every length-prefixed string of a successfully parsed message has
\* between 1 and 255 bytes: an AuthRequest with an empty username or
\* password and a ClientRequest with an empty domain are not accepted, and
\* no outbound connect is attempted for an empty domain name.
C22_StringsNonEmpty ==
    /\ (/\ last.op = "auth"
        /\ last.parse = "ok"
        => /\ Len(last.req.username) \in 1..255
           /\ Len(last.req.password) \in 1..255)
    /\ (/\ last.op = "request"
        /\ last.parse = "ok"
        /\ last.req.address.type = "Domain"
        => /\ Len(last.req.address.octets) \in 1..255
           /\ (last.connect # "none" => last.req.address.octets # <<>>))
    /\ (/\ last.op = "request"
        /\ Len(last.input) >= 5
        /\ last.input[2] = 1
        /\ last.input[4] = 3
        /\ last.input[5] = 0
        => /\ last.parse # "ok"
           /\ last.connect = "none")

\* C23: the bytes the client's BufReader holds when the relay starts (sent
\* directly after the ClientRequest and read from the socket with it) are
\* not lost: they are handed to the relay before anything is read from the
\* socket again, so they are the first bytes read from the client and the
\* first bytes written to the outbound stream, in order.
C23_PipelinedBytesFirst ==
    Relaying =>
        /\ IF Len(bytesRead["client"]) < Len(pipelined)
           THEN /\ bytesRead["client"] = <<>>
                /\ crbuf = pipelined
           ELSE /\ IsPrefix(pipelined, bytesRead["client"])
                /\ crbuf = <<>>
        /\ (IsPrefix(oout, pipelined) \/ IsPrefix(pipelined, oout))
        /\ (pc["client"] = "read" /\ bytesRead["client"] # <<>>
                => IsPrefix(pipelined, oout))

C23_Witness ==
    /\ state = "Proxying"
    /\ pipelined = << 7, 8 >>
    /\ bytesRead["client"] = << 7, 8, 8, 9 >>
    /\ oout = << 7, 8, 8 >>
    /\ crbuf = <<>>

====
